---------------------------- MODULE Spec2Model ----------------------------
(***************************************************************************)
(* payshare: the ledger of a collective (memberships, purchases,           *)
(* liquidations, soft deletion, the balance calculation of                 *)
(* Collective.stats) and the password/token handling of Collective.save,   *)
(* modelled from src/payshare/purchases/models.py.                         *)
(***************************************************************************)
EXTENDS Integers, Sequences, FiniteSets, TLC

(***************************************************************************)
(* Python float (IEEE-754 binary64) arithmetic, as stats uses it.          *)
(* Natural numbers of arbitrary size are little-endian sequences of limbs  *)
(* in base 2^15 without leading zero limbs; <<>> is zero.                  *)
(***************************************************************************)
Base == 2^15

RECURSIVE BNorm(_)
BNorm(a) ==
    IF a = <<>> THEN a
    ELSE IF a[Len(a)] = 0 THEN BNorm(SubSeq(a, 1, Len(a) - 1)) ELSE a

BFromInt(k) ==
    IF k = 0 THEN <<>>
    ELSE IF k < Base THEN <<k>>
    ELSE IF k < Base * Base THEN <<k % Base, k \div Base>>
    ELSE <<k % Base, (k \div Base) % Base, k \div (Base * Base)>>

BLimb(a, i) == IF i <= Len(a) THEN a[i] ELSE 0

RECURSIVE BAddFrom(_, _, _, _)
BAddFrom(a, b, i, c) ==
    IF i > Len(a) /\ i > Len(b)
    THEN IF c = 0 THEN <<>> ELSE <<c>>
    ELSE LET x == BLimb(a, i) + BLimb(b, i) + c
         IN  <<x % Base>> \o BAddFrom(a, b, i + 1, x \div Base)

BAdd(a, b) == BAddFrom(a, b, 1, 0)

RECURSIVE BSubFrom(_, _, _, _)
BSubFrom(a, b, i, c) ==
    IF i > Len(a) THEN <<>>
    ELSE LET x == a[i] - BLimb(b, i) - c
         IN  IF x < 0 THEN <<x + Base>> \o BSubFrom(a, b, i + 1, 1)
                      ELSE <<x>> \o BSubFrom(a, b, i + 1, 0)

\* a - b for a >= b
BSub(a, b) == BNorm(BSubFrom(a, b, 1, 0))

RECURSIVE BCmpFrom(_, _, _)
BCmpFrom(a, b, i) ==
    IF i = 0 THEN 0
    ELSE IF a[i] < b[i] THEN -1
    ELSE IF a[i] > b[i] THEN 1
    ELSE BCmpFrom(a, b, i - 1)

\* -1, 0, 1 as a < b, a = b, a > b
BCmp(a, b) ==
    IF Len(a) < Len(b) THEN -1
    ELSE IF Len(a) > Len(b) THEN 1
    ELSE BCmpFrom(a, b, Len(a))

RECURSIVE BMulFrom(_, _, _, _)
BMulFrom(a, k, i, c) ==
    IF i > Len(a)
    THEN IF c = 0 THEN <<>> ELSE <<c>>
    ELSE LET x == a[i] * k + c
         IN  <<x % Base>> \o BMulFrom(a, k, i + 1, x \div Base)

\* a * 2^d
BShl(a, d) ==
    IF a = <<>> THEN a
    ELSE [i \in 1..(d \div 15) |-> 0] \o BMulFrom(a, 2^(d % 15), 1, 0)

RECURSIVE BDivFrom(_, _, _, _)
BDivFrom(a, n, i, r) ==
    IF i = 0 THEN [q |-> <<>>, r |-> r]
    ELSE LET x    == r * Base + a[i]
             rest == BDivFrom(a, n, i - 1, x % n)
         IN  [q |-> Append(rest.q, x \div n), r |-> rest.r]

\* quotient and remainder of a by n, 0 < n <= 2^15
BDivSmall(a, n) ==
    LET d == BDivFrom(a, n, Len(a), 0) IN [q |-> BNorm(d.q), r |-> d.r]

\* floor(a / 2^d), and whether a bit was shifted out
BShr(a, d) ==
    LET k    == d \div 15
        low  == SubSeq(a, 1, IF k < Len(a) THEN k ELSE Len(a))
        high == SubSeq(a, k + 1, Len(a))
        dv   == BDivSmall(high, 2^(d % 15))
    IN  [q |-> dv.q, sticky |-> dv.r # 0 \/ \E i \in 1..Len(low) : low[i] # 0]

RECURSIVE IntBitLen(_)
IntBitLen(k) == IF k = 0 THEN 0 ELSE 1 + IntBitLen(k \div 2)

BBitLen(a) == IF a = <<>> THEN 0 ELSE 15 * (Len(a) - 1) + IntBitLen(a[Len(a)])

BOdd(a) == a # <<>> /\ a[1] % 2 = 1

(***************************************************************************)
(* A float is [s, m, e]: (-1)^s * m * 2^e with m = 0 (e = 0) or            *)
(* 2^52 <= m < 2^53.  Zero keeps its sign, as in IEEE-754.  The amounts    *)
(* of the model stay far from the subnormal and the overflow range.        *)
(***************************************************************************)
MantBits == 53

FZero(s) == [s |-> s, m |-> <<>>, e |-> 0]

FIsZero(x) == x.m = <<>>

\* s, m * 2^e (plus less than one unit of 2^e when sticky) rounded to
\* nearest, ties to even
FRound(s, m, e, sticky) ==
    LET L == BBitLen(m) IN
    IF L = 0 THEN FZero(s)
    ELSE IF L <= MantBits
    THEN [s |-> s, m |-> BShl(m, MantBits - L), e |-> e - (MantBits - L)]
    ELSE LET d     == L - MantBits
             sh    == BShr(m, d - 1)
             guard == BOdd(sh.q)
             q     == BShr(sh.q, 1).q
             up    == guard /\ (sh.sticky \/ sticky \/ BOdd(q))
             r     == IF up THEN BAdd(q, <<1>>) ELSE q
         IN  IF BBitLen(r) > MantBits
             THEN [s |-> s, m |-> BShr(r, 1).q, e |-> e + d + 1]
             ELSE [s |-> s, m |-> r, e |-> e + d]

FNeg(x) == [x EXCEPT !.s = 1 - x.s]

\* -1, 0, 1 comparing |x| and |y|
FCmpAbs(x, y) ==
    IF FIsZero(x) THEN (IF FIsZero(y) THEN 0 ELSE -1)
    ELSE IF FIsZero(y) THEN 1
    ELSE IF x.e < y.e THEN -1
    ELSE IF x.e > y.e THEN 1
    ELSE BCmp(x.m, y.m)

\* x < y
FLess(x, y) ==
    IF FIsZero(x) /\ FIsZero(y) THEN FALSE
    ELSE IF x.s # y.s THEN (IF FIsZero(x) THEN y.s = 0
                            ELSE IF FIsZero(y) THEN x.s = 1
                            ELSE x.s = 1)
    ELSE IF x.s = 0 THEN FCmpAbs(x, y) < 0 ELSE FCmpAbs(x, y) > 0

\* x + y
FAdd(x, y) ==
    IF FIsZero(x) /\ FIsZero(y) THEN FZero(IF x.s = 1 /\ y.s = 1 THEN 1 ELSE 0)
    ELSE IF FIsZero(x) THEN y
    ELSE IF FIsZero(y) THEN x
    ELSE LET lo == IF x.e < y.e THEN x.e ELSE y.e
             mx == BShl(x.m, x.e - lo)
             my == BShl(y.m, y.e - lo)
             c  == BCmp(mx, my)
         IN  IF x.s = y.s THEN FRound(x.s, BAdd(mx, my), lo, FALSE)
             ELSE IF c = 0 THEN FZero(0)
             ELSE IF c > 0 THEN FRound(x.s, BSub(mx, my), lo, FALSE)
             ELSE FRound(y.s, BSub(my, mx), lo, FALSE)

FSub(x, y) == FAdd(x, FNeg(y))

\* x / float(n) for an integer 0 < n <= 2^15
FDivInt(x, n) ==
    IF FIsZero(x) THEN x
    ELSE LET dv == BDivSmall(BShl(x.m, 60), n)
         IN  FRound(x.s, dv.q, x.e - 60, dv.r # 0)

\* float(k) for an integer 0 <= k < 2^31
FFromInt(k) == FRound(0, BFromInt(k), 0, FALSE)

\* float(Decimal) of an amount of c cents, c / 100 correctly rounded
FFromCents(c) == FDivInt(FFromInt(c), 100)

(***************************************************************************)
(* The inputs of the model.                                                *)
(***************************************************************************)
\* Collective rows in the order of their ids
CollectiveOrder == <<"c1", "c2">>

Collectives == {CollectiveOrder[i] : i \in 1..Len(CollectiveOrder)}

\* the collective whose ledger Spec exercises
LedgerCollectives == {"c1"}

\* auth.User rows in the order the database returns them (by id)
UserOrder == <<"A", "B", "C">>

Users == {UserOrder[i] : i \in 1..Len(UserOrder)}

\* prices and amounts in cents: MoneyField(decimal_places=2)
Prices == {10000}

Amounts == {5000}

\* prices of a few cents, for the sums of stats: 0.10, 0.20, 0.30
SmallPrices == {10, 20, 30}

\* a string is a sequence: a plain text is <<text>>, and the salted hash
\* that make_password gives for the string s under salt k is <<k>> \o s
Plaintexts == {<<"">>, <<"a">>, <<"b">>}

\* two collectives sharing their users: the users and the new password drawn
IsoUsers == {"A", "B"}
IsoPlaintexts == {<<"b">>}

Names == {"n1", "n2"}

\* Purchase and Liquidation rows stored in a run
MaxEntries == 2

\* calls of make_password in a run
MaxHashes == 3

\* Purchase rows stored in a run of SpecSum
MaxRows == 3

NoError == "none"

\* the request handlers that run calls concurrently
Procs == {"p1", "p2"}

\* a handler that is in no call
Idle == [pc |-> "idle"]

VARIABLES
    memberships,   \* Membership table: rows per (collective, member)
    active,        \* auth.User.is_active
    purchases,     \* Purchase table, the id of a row is its index
    liquidations,  \* Liquidation table, the id of a row is its index
    collectives,   \* Collective table: id (0: no row yet), name, password, token
    uuids,         \* values uuid.uuid4() has returned so far
    salts,         \* salts make_password has drawn so far
    assigned,      \* per collective, the string last assigned to .password by a caller
    calls,         \* per request handler, the call it is in the middle of
    result         \* the call made last: operation, error raised, row id

ledgerVars == <<memberships, active, purchases, liquidations>>

credentialVars == <<collectives, uuids, salts, assigned, calls>>

vars == <<memberships, active, purchases, liquidations,
          collectives, uuids, salts, assigned, calls, result>>

(***************************************************************************)
(* Membership guard.                                                       *)
(***************************************************************************)
\* Membership.objects.get(collective=self, member=user) finds a row
is_member(collective, user) == memberships[collective][user] > 0

\* faulty Membership table: no unique_together, create always inserts
MembershipCreate_NoConstraint(collective, user) ==
    [rows |-> [memberships EXCEPT ![collective][user] = @ + 1],
     err  |-> NoError, created |-> TRUE]

\* Membership.objects.create under unique_together (member, collective)
MembershipCreate(collective, user) ==
    IF memberships[collective][user] > 0
    THEN [rows |-> memberships, err |-> "IntegrityError", created |-> FALSE]
    ELSE [rows |-> [memberships EXCEPT ![collective][user] = @ + 1],
          err  |-> NoError, created |-> TRUE]

\* faulty add_member: creates the row without asking is_member
add_member_Unchecked(collective, user) == MembershipCreate(collective, user)

\* Collective.add_member: the table and the error after the call
add_member(collective, user) ==
    IF ~is_member(collective, user)
    THEN MembershipCreate(collective, user)
    ELSE [rows |-> memberships, err |-> NoError, created |-> FALSE]

\* faulty receiver: never raises
purchase_pre_save_Absent(collective, buyer) == NoError

\* the pre_save receiver of Purchase: the error it raises
purchase_pre_save_ensure_membership(collective, buyer) ==
    IF ~is_member(collective, buyer)
    THEN "UserNotMemberOfCollectiveError"
    ELSE NoError

\* faulty receiver: asks for the memberships before it compares the two users
liquidation_pre_save_MembershipFirst(collective, debtor, creditor) ==
    IF ~is_member(collective, debtor) \/ ~is_member(collective, creditor)
    THEN "UserNotMemberOfCollectiveError"
    ELSE IF debtor = creditor
    THEN "LiquidationNeedsTwoDifferentUsersError"
    ELSE NoError

\* faulty receiver: asks for the membership of the debtor only
liquidation_pre_save_DebtorOnly(collective, debtor, creditor) ==
    IF debtor = creditor
    THEN "LiquidationNeedsTwoDifferentUsersError"
    ELSE IF ~is_member(collective, debtor)
    THEN "UserNotMemberOfCollectiveError"
    ELSE NoError

\* the pre_save receiver of Liquidation: the error it raises
liquidation_pre_save_ensure_constraints(collective, debtor, creditor) ==
    IF debtor = creditor
    THEN "LiquidationNeedsTwoDifferentUsersError"
    ELSE IF ~is_member(collective, debtor)
    THEN "UserNotMemberOfCollectiveError"
    ELSE IF ~is_member(collective, creditor)
    THEN "UserNotMemberOfCollectiveError"
    ELSE NoError

(***************************************************************************)
(* Balance calculator: Collective.members, purchases, liquidations, stats, *)
(* over given tables.  The querysets carry no ordering; rows are read in   *)
(* id order.  sum() adds from the left, one rounding per addition.         *)
(***************************************************************************)
\* Collective.members: the active users with a Membership, in table order
MembersOf(collective, mem, act) ==
    SelectSeq(UserOrder, LAMBDA u : mem[collective][u] > 0 /\ act[u])

InSeq(x, s) == \E i \in 1..Len(s) : s[i] = x

\* faulty Collective.purchases: no filter on the collective
PurchasesOf_AllCollectives(collective, members, ps) ==
    SelectSeq(ps, LAMBDA p : /\ InSeq(p.buyer, members)
                             /\ ~p.deleted)

\* faulty Collective.purchases: keeps the deleted rows
PurchasesOf_WithDeleted(collective, members, ps) ==
    SelectSeq(ps, LAMBDA p : /\ p.collective = collective
                             /\ InSeq(p.buyer, members))

\* Collective.purchases
PurchasesOf(collective, members, ps) ==
    SelectSeq(ps, LAMBDA p : /\ p.collective = collective
                             /\ InSeq(p.buyer, members)
                             /\ ~p.deleted)

\* Collective.liquidations
LiquidationsOf(collective, members, ls) ==
    SelectSeq(ls, LAMBDA l : /\ l.collective = collective
                             /\ ~l.deleted
                             /\ (InSeq(l.creditor, members) \/ InSeq(l.debtor, members)))

\* sum([...]) of floats: 0 + x1 + x2 + ... from the left
RECURSIVE FSumFrom(_, _, _)
FSumFrom(xs, i, acc) ==
    IF i > Len(xs) THEN acc ELSE FSumFrom(xs, i + 1, FAdd(acc, xs[i]))

FSum(xs) == FSumFrom(xs, 1, FZero(0))

\* sum([float(x) for x in cents])
SumCents(cents) == FSum([i \in 1..Len(cents) |-> FFromCents(cents[i])])

\* [purchase.price.amount for purchase in rows]
PricesIn(rows) == [i \in 1..Len(rows) |-> rows[i].price]

\* [liquidation.amount.amount for liquidation in rows]
AmountsIn(rows) == [i \in 1..Len(rows) |-> rows[i].amount]

\* faulty loop body: credit and debt change places
BalanceOf_Swapped(member, per_member, ps, ls) ==
    LET member_purchased == SumCents(PricesIn(
                SelectSeq(ps, LAMBDA p : p.buyer = member)))
        credit == SumCents(AmountsIn(
                SelectSeq(ls, LAMBDA l : l.debtor = member)))
        debt   == SumCents(AmountsIn(
                SelectSeq(ls, LAMBDA l : l.creditor = member)))
        has_to_pay == FAdd(FSub(FSub(per_member, member_purchased), credit), debt)
        balance == FNeg(has_to_pay)
    IN  IF FIsZero(balance) THEN FZero(0) ELSE balance

\* the body of the loop of stats: the balance of one member
BalanceOf(member, per_member, ps, ls) ==
    LET member_purchased == SumCents(PricesIn(
                SelectSeq(ps, LAMBDA p : p.buyer = member)))
        credit == SumCents(AmountsIn(
                SelectSeq(ls, LAMBDA l : l.creditor = member)))
        debt   == SumCents(AmountsIn(
                SelectSeq(ls, LAMBDA l : l.debtor = member)))
        has_to_pay == FAdd(FSub(FSub(per_member, member_purchased), credit), debt)
        balance == FNeg(has_to_pay)
    IN  IF FIsZero(balance) THEN FZero(0) ELSE balance

\* faulty sort: an item goes before the items of equal balance
RECURSIVE InsertDesc_Unstable(_, _)
InsertDesc_Unstable(item, sorted) ==
    IF sorted = <<>> THEN <<item>>
    ELSE IF ~FLess(item.balance, Head(sorted).balance)
    THEN <<item>> \o sorted
    ELSE <<Head(sorted)>> \o InsertDesc_Unstable(item, Tail(sorted))

\* sorted(items, key=balance, reverse=True): stable, descending
RECURSIVE InsertDesc(_, _)
InsertDesc(item, sorted) ==
    IF sorted = <<>> THEN <<item>>
    ELSE IF FLess(Head(sorted).balance, item.balance)
    THEN <<item>> \o sorted
    ELSE <<Head(sorted)>> \o InsertDesc(item, Tail(sorted))

RECURSIVE SortedDesc(_, _)
SortedDesc(items, n) ==
    IF n = 0 THEN <<>> ELSE InsertDesc(items[n], SortedDesc(items, n - 1))

\* Collective.stats over the tables mem, act, ps, ls
StatsOn(collective, mem, act, ps, ls) ==
    LET members == MembersOf(collective, mem, act)
        num_members == Len(members)
        cps == PurchasesOf(collective, members, ps)
        cls == LiquidationsOf(collective, members, ls)
        overall_purchased == SumCents(PricesIn(cps))
        overall_debt == SumCents(AmountsIn(cls))
    IN  IF num_members = 0
        THEN [err |-> "ZeroDivisionError"]
        ELSE LET per_member == FDivInt(overall_purchased, num_members)
                 items == [i \in 1..num_members |->
                             [member  |-> members[i],
                              balance |-> BalanceOf(members[i], per_member, cps, cls)]]
             IN  [err |-> NoError,
                  overall_debt |-> overall_debt,
                  overall_purchased |-> overall_purchased,
                  sorted_balances |-> SortedDesc(items, num_members)]

stats(collective) == StatsOn(collective, memberships, active, purchases, liquidations)

(***************************************************************************)
(* Credential manager: Collective.save, _set_password, check_password.     *)
(* uuid.uuid4() and the salt of make_password are modelled as fresh        *)
(* values (the next of a counter): two draws never collide.                *)
(***************************************************************************)
\* django.contrib.auth.hashers.make_password with the salt drawn
make_password(password, salt) == <<salt>> \o password

\* django.contrib.auth.hashers.check_password: encoded is a hash of password
check_password(password, encoded) ==
    Len(encoded) > 1 /\ Tail(encoded) = password

\* faulty _set_password: hashes and keeps the token
set_password_KeepToken(self, salt, uuid) ==
    [self EXCEPT !.password = make_password(self.password, salt)]

\* Collective._set_password
set_password(self, salt, uuid) ==
    [self EXCEPT !.password = make_password(self.password, salt),
                 !.token = uuid]

\* Collective.save: the row that super().save() writes
save(self, salt, uuid) ==
    IF self.id = 0
    THEN set_password(self, salt, uuid)
    ELSE LET password_in_db ==
                 collectives[CHOOSE c \in Collectives :
                                 collectives[c].id = self.id].password
         IN  IF password_in_db # self.password
             THEN set_password(self, salt, uuid)
             ELSE self

\* Collective.check_password on the stored row
CheckPassword(c, password) == check_password(password, collectives[c].password)

NoRow == [id |-> 0, name |-> "", password |-> <<"">>, token |-> 0]

(***************************************************************************)
(* The operations.  A call is one step: the pre_save receiver runs inside  *)
(* Model.save before the row is written, and an error it raises leaves the *)
(* tables as they were.                                                    *)
(***************************************************************************)
Result(op, err, id) == [op |-> op, err |-> err, id |-> id]

\* the number of Membership rows: the id of the row created last
MembershipCount(rows) ==
    LET pairs == Collectives \X Users
        RECURSIVE Count(_)
        Count(S) == IF S = {} THEN 0
                    ELSE LET x == CHOOSE y \in S : TRUE
                         IN  rows[x[1]][x[2]] + Count(S \ {x})
    IN  Count(pairs)

\* collective.add_member(user)
AddMember(c, u) ==
    LET r == add_member(c, u)
    IN  /\ memberships' = r.rows
        /\ result' = Result("addMember", r.err,
                             IF r.created THEN MembershipCount(r.rows) ELSE 0)
        /\ UNCHANGED <<active, purchases, liquidations, credentialVars>>

\* Purchase.objects.create(collective=c, buyer=u, price=price)
CreatePurchase(c, u, price) ==
    /\ LET err == purchase_pre_save_ensure_membership(c, u)
       IN  IF err = NoError
           THEN /\ purchases' = Append(purchases,
                       [collective |-> c, buyer |-> u, price |-> price,
                        deleted |-> FALSE])
                /\ result' = Result("createPurchase", err, Len(purchases) + 1)
           ELSE /\ purchases' = purchases
                /\ result' = Result("createPurchase", err, 0)
    /\ UNCHANGED <<memberships, active, liquidations, credentialVars>>

\* Liquidation.objects.create(collective=c, debtor=d, creditor=cr, amount=amount)
CreateLiquidation(c, d, cr, amount) ==
    /\ LET err == liquidation_pre_save_ensure_constraints(c, d, cr)
       IN  IF err = NoError
           THEN /\ liquidations' = Append(liquidations,
                       [collective |-> c, debtor |-> d, creditor |-> cr,
                        amount |-> amount, deleted |-> FALSE])
                /\ result' = Result("createLiquidation", err, Len(liquidations) + 1)
           ELSE /\ liquidations' = liquidations
                /\ result' = Result("createLiquidation", err, 0)
    /\ UNCHANGED <<memberships, active, purchases, credentialVars>>


\* faulty Purchase.delete: flips the flag, so that a second delete restores
\* the row
DeletePurchase_Toggle(i) ==
    /\ i \in 1..Len(purchases)
    /\ LET p   == purchases[i]
           err == purchase_pre_save_ensure_membership(p.collective, p.buyer)
       IN  /\ purchases' = IF err = NoError
                           THEN [purchases EXCEPT ![i].deleted = ~@]
                           ELSE purchases
           /\ result' = Result("deletePurchase", err, i)
    /\ UNCHANGED <<memberships, active, liquidations, credentialVars>>

\* Purchase.objects.get(id=i).delete(): sets the flag and saves
DeletePurchase(i) ==
    /\ i \in 1..Len(purchases)
    /\ LET p   == purchases[i]
           err == purchase_pre_save_ensure_membership(p.collective, p.buyer)
       IN  /\ purchases' = IF err = NoError
                           THEN [purchases EXCEPT ![i].deleted = TRUE]
                           ELSE purchases
           /\ result' = Result("deletePurchase", err, i)
    /\ UNCHANGED <<memberships, active, liquidations, credentialVars>>

\* Liquidation.objects.get(id=i).delete(): sets the flag and saves
DeleteLiquidation(i) ==
    /\ i \in 1..Len(liquidations)
    /\ LET l   == liquidations[i]
           err == liquidation_pre_save_ensure_constraints(
                      l.collective, l.debtor, l.creditor)
       IN  /\ liquidations' = IF err = NoError
                              THEN [liquidations EXCEPT ![i].deleted = TRUE]
                              ELSE liquidations
           /\ result' = Result("deleteLiquidation", err, i)
    /\ UNCHANGED <<memberships, active, purchases, credentialVars>>

\* the identity provider switches User.is_active, which Collective.members reads
SetActive(u, b) ==
    /\ active[u] # b
    /\ active' = [active EXCEPT ![u] = b]
    /\ result' = Result("setActive", NoError, 0)
    /\ UNCHANGED <<memberships, purchases, liquidations, credentialVars>>

\* the write of an instance whose save() drew salt salts + 1 and uuid + 1
Persist(c, instance, saved, draws, op) ==
    /\ collectives' = [collectives EXCEPT ![c] = saved]
    /\ salts' = IF saved.password # instance.password THEN salts + 1 ELSE salts
    /\ uuids' = IF saved.token # instance.token THEN uuids + draws + 1
                                                ELSE uuids + draws
    /\ result' = Result(op, NoError, saved.id)

\* Collective(name=name, password=password).save(): the token field draws its
\* default, save() hashes the password and rotates the token, the row gets
\* the next id
CreateCollective(c, name, password) ==
    /\ collectives[c].id = 0
    /\ LET instance == [id |-> 0, name |-> name, password |-> password,
                        token |-> uuids + 1]
           saved    == save(instance, salts + 1, uuids + 2)
           id       == Cardinality({d \in Collectives : collectives[d].id # 0}) + 1
       IN  Persist(c, instance, [saved EXCEPT !.id = id], 1, "createCollective")
    /\ assigned' = [assigned EXCEPT ![c] = password]
    /\ UNCHANGED <<calls, ledgerVars>>

\* c = Collective.objects.get(id=...); c.password = password; c.save()
SetPassword(c, password) ==
    /\ collectives[c].id # 0
    /\ LET instance == [collectives[c] EXCEPT !.password = password]
       IN  Persist(c, instance, save(instance, salts + 1, uuids + 1), 0,
                   "setPassword")
    /\ assigned' = [assigned EXCEPT ![c] = password]
    /\ UNCHANGED <<calls, ledgerVars>>

\* c = Collective.objects.get(id=...); c.name = name; c.save()
SaveName(c, name) ==
    /\ collectives[c].id # 0
    /\ LET instance == [collectives[c] EXCEPT !.name = name]
       IN  Persist(c, instance, save(instance, salts + 1, uuids + 1), 0,
                   "saveName")
    /\ UNCHANGED <<assigned, calls, ledgerVars>>

\* the strings a caller assigns to .password: plain texts, and the string
\* the row holds (the hash, as a form that echoes the field back does)
PasswordInputs(c) == Plaintexts \cup {collectives[c].password}

LedgerEmpty ==
    /\ memberships = [c \in Collectives |-> [u \in Users |-> 0]]
    /\ active = [u \in Users |-> TRUE]
    /\ purchases = <<>>
    /\ liquidations = <<>>
    /\ calls = [p \in Procs |-> Idle]
    /\ result = Result("init", NoError, 0)

\* the collectives exist, each saved once with password "a"; the ledger is empty
Init ==
    /\ LedgerEmpty
    /\ collectives = [c \in Collectives |->
           LET k == CHOOSE i \in 1..Len(CollectiveOrder) : CollectiveOrder[i] = c
           IN  [id |-> k, name |-> "n1", password |-> make_password(<<"a">>, k),
                token |-> 2 * k]]
    /\ uuids = 2 * Len(CollectiveOrder)
    /\ salts = Len(CollectiveOrder)
    /\ assigned = [c \in Collectives |-> <<"a">>]

Next ==
    \/ \E c \in LedgerCollectives, u \in Users : AddMember(c, u)
    \/ \E c \in LedgerCollectives, u \in Users, price \in Prices :
           /\ \/ Len(purchases) + Len(liquidations) < MaxEntries
              \/ purchase_pre_save_ensure_membership(c, u) # NoError
           /\ CreatePurchase(c, u, price)
    \/ \E c \in LedgerCollectives, d \in Users, cr \in Users, amount \in Amounts :
           /\ \/ Len(purchases) + Len(liquidations) < MaxEntries
              \/ liquidation_pre_save_ensure_constraints(c, d, cr) # NoError
           /\ CreateLiquidation(c, d, cr, amount)
    \/ \E i \in 1..MaxEntries : DeletePurchase(i)
    \/ \E i \in 1..MaxEntries : DeleteLiquidation(i)
    \/ \E u \in Users, b \in BOOLEAN : SetActive(u, b)

Spec == Init /\ [][Next]_vars

\* no Collective row yet, the ledger is empty
InitCred ==
    /\ LedgerEmpty
    /\ collectives = [c \in Collectives |-> NoRow]
    /\ uuids = 0
    /\ salts = 0
    /\ assigned = [c \in Collectives |-> <<"">>]

NextCred ==
    \/ \E c \in Collectives, name \in Names, password \in Plaintexts :
           salts < MaxHashes /\ CreateCollective(c, name, password)
    \/ \E c \in Collectives :
           \E password \in PasswordInputs(c) :
               salts < MaxHashes /\ SetPassword(c, password)
    \/ \E c \in Collectives, name \in Names : SaveName(c, name)

SpecCred == InitCred /\ [][NextCred]_vars

\* the ledger of one collective with purchases of a few cents
NextSum ==
    \/ \E c \in LedgerCollectives, u \in Users : AddMember(c, u)
    \/ \E c \in LedgerCollectives, u \in Users, price \in SmallPrices :
           /\ \/ Len(purchases) < MaxRows
              \/ purchase_pre_save_ensure_membership(c, u) # NoError
           /\ CreatePurchase(c, u, price)

SpecSum == Init /\ [][NextSum]_vars

(***************************************************************************)
(* Two request handlers update Collective rows concurrently.  An update is *)
(* c = Collective.objects.get(...), an assignment to a field, c.save();    *)
(* save() reads password_in_db with one query (line 88) and writes the     *)
(* whole instance with another (line 91), and nothing locks the row        *)
(* between the queries.                                                    *)
(***************************************************************************)
\* Collective.save up to line 90, given the password line 88 has read
save_given(self, password_in_db, salt, uuid) ==
    IF self.id = 0
    THEN set_password(self, salt, uuid)
    ELSE IF password_in_db # self.password
         THEN set_password(self, salt, uuid)
         ELSE self

\* the handler p gets the row of c and assigns the field
LoadRow(p, c, kind, value) ==
    /\ calls[p].pc = "idle"
    /\ collectives[c].id # 0
    /\ calls' = [calls EXCEPT ![p] =
           [pc       |-> "loaded",
            c        |-> c,
            kind     |-> kind,
            value    |-> value,
            instance |-> IF kind = "password"
                         THEN [collectives[c] EXCEPT !.password = value]
                         ELSE [collectives[c] EXCEPT !.name = value],
            hashed   |-> FALSE,
            commit   |-> 0]]
    /\ UNCHANGED <<ledgerVars, collectives, uuids, salts, assigned, result>>

\* save(), lines 85-90: the query for password_in_db, the comparison and
\* _set_password on the instance
SaveCompare(p) ==
    /\ calls[p].pc = "loaded"
    /\ LET r      == calls[p]
           saved  == save_given(r.instance, collectives[r.c].password,
                                salts + 1, uuids + 1)
           hashed == saved.password # r.instance.password
       IN  /\ calls' = [calls EXCEPT ![p] =
                  [r EXCEPT !.pc = "compared", !.instance = saved,
                            !.hashed = hashed]]
           /\ salts' = IF hashed THEN salts + 1 ELSE salts
           /\ uuids' = IF saved.token # r.instance.token THEN uuids + 1 ELSE uuids
    /\ UNCHANGED <<ledgerVars, collectives, assigned, result>>

\* save(), line 91: super().save() writes every field of the instance
SaveWrite(p) ==
    /\ calls[p].pc = "compared"
    /\ LET r == calls[p]
       IN  /\ collectives' = [collectives EXCEPT ![r.c] = r.instance]
           /\ assigned' = IF r.kind = "password"
                          THEN [assigned EXCEPT ![r.c] = r.value]
                          ELSE assigned
           /\ calls' = [calls EXCEPT ![p] =
                  [r EXCEPT !.pc = "done",
                            !.commit = 1 + Cardinality(
                                {q \in Procs : calls[q].pc = "done"})]]
           /\ result' = Result(IF r.kind = "password" THEN "setPassword"
                                                      ELSE "saveName",
                               NoError, r.instance.id)
    /\ UNCHANGED <<ledgerVars, uuids, salts>>

NextRace ==
    \/ \E p \in Procs, c \in Collectives, password \in Plaintexts :
           LoadRow(p, c, "password", password)
    \/ \E p \in Procs, c \in Collectives, name \in Names :
           LoadRow(p, c, "name", name)
    \/ \E p \in Procs : SaveCompare(p)
    \/ \E p \in Procs : SaveWrite(p)

SpecRace == Init /\ [][NextRace]_vars

(***************************************************************************)
(* Two request handlers call add_member concurrently: is_member is one     *)
(* query (line 104), Membership.objects.create another (line 105).         *)
(***************************************************************************)
\* add_member, line 104: the handler p asks is_member
CheckMember(p, c, u) ==
    /\ calls[p].pc = "idle"
    /\ calls' = [calls EXCEPT ![p] =
           [pc |-> "checked", c |-> c, u |-> u, found |-> is_member(c, u),
            err |-> NoError, created |-> FALSE, commit |-> 0]]
    /\ UNCHANGED <<ledgerVars, collectives, uuids, salts, assigned, result>>

\* add_member, line 105: the create, when is_member found no row; an
\* IntegrityError of the table reaches the caller
CreateMembership(p) ==
    /\ calls[p].pc = "checked"
    /\ LET r   == calls[p]
           out == IF r.found
                  THEN [rows |-> memberships, err |-> NoError, created |-> FALSE]
                  ELSE MembershipCreate(r.c, r.u)
       IN  /\ memberships' = out.rows
           /\ calls' = [calls EXCEPT ![p] =
                  [r EXCEPT !.pc = "done", !.err = out.err,
                            !.created = out.created,
                            !.commit = 1 + Cardinality(
                                {q \in Procs : calls[q].pc = "done"})]]
           /\ result' = Result("addMember", out.err,
                               IF out.created THEN MembershipCount(out.rows)
                                              ELSE 0)
    /\ UNCHANGED <<active, purchases, liquidations,
                   collectives, uuids, salts, assigned>>

NextJoin ==
    \/ \E p \in Procs, c \in Collectives, u \in Users : CheckMember(p, c, u)
    \/ \E p \in Procs : CreateMembership(p)

SpecJoin == Init /\ [][NextJoin]_vars

\* the operations on either collective, over users the two share
NextIso ==
    \/ \E c \in Collectives, u \in IsoUsers : AddMember(c, u)
    \/ \E c \in Collectives, u \in IsoUsers, price \in Prices :
           /\ \/ Len(purchases) + Len(liquidations) < MaxEntries
              \/ purchase_pre_save_ensure_membership(c, u) # NoError
           /\ CreatePurchase(c, u, price)
    \/ \E c \in Collectives, d \in IsoUsers, cr \in IsoUsers, amount \in Amounts :
           /\ \/ Len(purchases) + Len(liquidations) < MaxEntries
              \/ liquidation_pre_save_ensure_constraints(c, d, cr) # NoError
           /\ CreateLiquidation(c, d, cr, amount)
    \/ \E i \in 1..MaxEntries : DeletePurchase(i)
    \/ \E i \in 1..MaxEntries : DeleteLiquidation(i)
    \/ \E c \in Collectives, password \in IsoPlaintexts :
           salts < MaxHashes /\ SetPassword(c, password)

SpecIso == Init /\ [][NextIso]_vars

(***************************************************************************)
(* Properties.                                                             *)
(***************************************************************************)
\* the balances of stats(c), in the order of sorted_balances
Balances(st) == [i \in 1..Len(st.sorted_balances) |-> st.sorted_balances[i].balance]

\* the balance stats gives for member m (m is an active member)
Balance(st, m) ==
    st.sorted_balances[CHOOSE i \in 1..Len(st.sorted_balances) :
                           st.sorted_balances[i].member = m].balance

HasBalance(st, m) ==
    st.err = NoError /\ \E i \in 1..Len(st.sorted_balances) :
                            st.sorted_balances[i].member = m

\* the exact (unrounded) sum of the nonzero floats of sign s in xs, in units
\* of 2^lo
RECURSIVE BSumSigned(_, _, _, _)
BSumSigned(xs, s, lo, i) ==
    IF i > Len(xs) THEN <<>>
    ELSE IF FIsZero(xs[i]) \/ xs[i].s # s THEN BSumSigned(xs, s, lo, i + 1)
    ELSE BAdd(BShl(xs[i].m, xs[i].e - lo), BSumSigned(xs, s, lo, i + 1))

\* the floats of xs add up to exactly 0
ExactSumIsZero(xs) ==
    LET es == {xs[i].e : i \in {j \in 1..Len(xs) : ~FIsZero(xs[j])}}
    IN  IF es = {} THEN TRUE
        ELSE LET lo == CHOOSE e \in es : \A f \in es : e <= f
             IN  BSumSigned(xs, 0, lo, 1) = BSumSigned(xs, 1, lo, 1)

\* C1: in every reachable state, the balances that stats returns for a
\* collective with at least one active member sum to exactly 0.
C1_ZeroSum ==
    \A c \in Collectives :
        stats(c).err = NoError => ExactSumIsZero(Balances(stats(c)))

\* C2: createPurchase with a buyer who is not a member of the collective
\* raises UserNotMemberOfCollectiveError and leaves the Purchase table as
\* it was.
C2_NonMemberPurchaseRejected ==
    [][\A c \in Collectives, u \in Users, price \in Prices :
          (CreatePurchase(c, u, price) /\ ~is_member(c, u))
              => /\ result'.err = "UserNotMemberOfCollectiveError"
                 /\ purchases' = purchases]_vars

\* a purchase is stored, and a createPurchase by a non-member has just failed
C2_Witness ==
    /\ result.op = "createPurchase"
    /\ result.err = "UserNotMemberOfCollectiveError"
    /\ Len(purchases) > 0

\* C3: createLiquidation with debtor = creditor raises
\* LiquidationNeedsTwoDifferentUsersError, whether or not the user is a
\* member, and leaves the Liquidation table as it was.
C3_SameActorRejected ==
    [][\A c \in Collectives, u \in Users, amount \in Amounts :
          CreateLiquidation(c, u, u, amount)
              => /\ result'.err = "LiquidationNeedsTwoDifferentUsersError"
                 /\ liquidations' = liquidations]_vars

\* the same-actor error has just been raised in a collective without any
\* member: the user named twice is not a member
C3_Witness ==
    /\ result.op = "createLiquidation"
    /\ result.err = "LiquidationNeedsTwoDifferentUsersError"
    /\ \A c \in Collectives, u \in Users : ~is_member(c, u)

C4_Stored ==
    \A i \in 1..Len(liquidations) :
        LET l == liquidations[i]
        IN  /\ l.debtor # l.creditor
            /\ is_member(l.collective, l.debtor)
            /\ is_member(l.collective, l.creditor)

C4_Step ==
    \A c \in Collectives, d \in Users, cr \in Users, amount \in Amounts :
        (/\ CreateLiquidation(c, d, cr, amount)
         /\ d # cr
         /\ ~is_member(c, d) \/ ~is_member(c, cr))
            => /\ result'.err = "UserNotMemberOfCollectiveError"
               /\ liquidations' = liquidations

\* C4: every stored Liquidation has debtor # creditor and both are members of
\* its collective; a createLiquidation between two users of whom one is not
\* a member raises UserNotMemberOfCollectiveError and stores nothing.
C4_LiquidationGuard == []C4_Stored /\ [][C4_Step]_vars

\* a liquidation is stored, and a createLiquidation with a non-member has
\* just failed
C4_Witness ==
    /\ result.op = "createLiquidation"
    /\ result.err = "UserNotMemberOfCollectiveError"
    /\ Len(liquidations) > 0

\* C5: setPassword with a string that checkPassword accepts (the same
\* effective password) leaves the token unchanged; setPassword with any
\* other string changes the token.
C5_TokenFollowsPassword ==
    [][\A c \in Collectives :
          \A password \in PasswordInputs(c) :
              SetPassword(c, password)
                  => IF CheckPassword(c, password)
                     THEN collectives'[c].token = collectives[c].token
                     ELSE collectives'[c].token # collectives[c].token]_vars

\* C6: across every save of a Collective, the stored token differs from its
\* previous value if and only if the stored password hash differs from its
\* previous value.
C6_TokenIffHash ==
    [][\A c \in Collectives :
          (collectives'[c].token # collectives[c].token)
              <=> (collectives'[c].password # collectives[c].password)]_vars

\* a password change has rotated the token of a collective that was created
\* before, and the last save changed only its name
C6_Witness ==
    \E c \in Collectives :
        /\ result.op = "saveName"
        /\ result.id = collectives[c].id
        /\ collectives[c].id # 0
        /\ collectives[c].password[1] > collectives[c].id
        /\ collectives[c].name = "n2"

\* C7: checkPassword accepts the string most recently set as the password
\* of the collective and rejects every other string.
C7_OnlyLastPasswordAccepted ==
    \A c \in Collectives :
        collectives[c].id # 0 =>
            \A password \in PasswordInputs(c) \cup {assigned[c]} :
                CheckPassword(c, password) <=> (password = assigned[c])

RemoveAt(s, i) == SubSeq(s, 1, i - 1) \o SubSeq(s, i + 1, Len(s))

\* stats is what it would be without the rows that carry deleted = TRUE
C8_DeletedExcluded ==
    \A c \in Collectives :
        \A st \in {stats(c)} :
            /\ \A i \in 1..Len(purchases) :
                   purchases[i].deleted =>
                       st = StatsOn(c, memberships, active,
                                    RemoveAt(purchases, i), liquidations)
            /\ \A i \in 1..Len(liquidations) :
                   liquidations[i].deleted =>
                       st = StatsOn(c, memberships, active,
                                    purchases, RemoveAt(liquidations, i))

\* delete() keeps the row under its id and sets its flag
C8_Step ==
    /\ \A i \in 1..Len(purchases) :
           (DeletePurchase(i) /\ result'.err = NoError)
               => purchases' = [purchases EXCEPT ![i].deleted = TRUE]
    /\ \A i \in 1..Len(liquidations) :
           (DeleteLiquidation(i) /\ result'.err = NoError)
               => liquidations' = [liquidations EXCEPT ![i].deleted = TRUE]

\* C8: after the soft delete of a Purchase or Liquidation, stats equals what
\* it would be had the row never been created, while the row still exists
\* under its id with deleted = TRUE.
C8_SoftDeleteExcluded == []C8_DeletedExcluded /\ [][C8_Step]_vars

\* a purchase of an active member has just been deleted, next to a counted
\* liquidation
C8_Witness ==
    /\ result.op = "deletePurchase"
    /\ result.err = NoError
    /\ purchases[result.id].deleted
    /\ HasBalance(stats(purchases[result.id].collective), purchases[result.id].buyer)
    /\ \E i \in 1..Len(liquidations) : ~liquidations[i].deleted

C9_Unique == \A c \in Collectives, u \in Users : memberships[c][u] <= 1

C9_Step ==
    \A c \in Collectives, u \in Users :
        AddMember(c, u)
            => /\ memberships'[c][u] = 1
               /\ result'.err = NoError
               /\ is_member(c, u) => memberships' = memberships

\* C9: after addMember(c, u) exactly one Membership row exists for (c, u),
\* a repeated call changes nothing and raises no error, and no state holds
\* two rows for one pair.
C9_AddMemberIdempotent == []C9_Unique /\ [][C9_Step]_vars

\* an addMember call has just found the user a member and created no row
C9_Witness ==
    /\ result.op = "addMember"
    /\ result.err = NoError
    /\ result.id = 0
    /\ \E c \in Collectives, u \in Users : memberships[c][u] = 1

\* members A and B, both active, one counted purchase: 100.00 by A, no
\* counted liquidation
C10_Scenario(c) ==
    LET members == MembersOf(c, memberships, active)
    IN  /\ members = <<"A", "B">>
        /\ PurchasesOf(c, members, purchases) =
               <<[collective |-> c, buyer |-> "A", price |-> 10000,
                  deleted |-> FALSE]>>
        /\ LiquidationsOf(c, members, liquidations) = <<>>

\* stats after the step
StatsAfter(c) == StatsOn(c, memberships', active', purchases', liquidations')

\* both balances 0, overall_debt 50.00
C10_Settled(st) ==
    /\ st.err = NoError
    /\ Balance(st, "A") = FZero(0)
    /\ Balance(st, "B") = FZero(0)
    /\ st.overall_debt = FFromCents(5000)

\* the balance of m is higher in stats after than in stats before
C10_Raised(before, after, m) == FLess(Balance(before, m), Balance(after, m))

\* C10 as stated: in the scenario a liquidation of 50.00 with creditor A and
\* debtor B settles both balances, and a liquidation raises the balance of
\* its debtor and lowers that of its creditor.
C10_AsStated ==
    [][\A c \in Collectives, d \in Users, cr \in Users, amount \in Amounts :
          (CreateLiquidation(c, d, cr, amount) /\ result'.err = NoError)
              => \A before \in {stats(c)}, after \in {StatsAfter(c)} :
                     /\ (C10_Scenario(c) /\ cr = "A" /\ d = "B" /\ amount = 5000)
                            => C10_Settled(after)
                     /\ HasBalance(before, d) => C10_Raised(before, after, d)
                     /\ HasBalance(before, cr) => C10_Raised(after, before, cr)]_vars

\* |(x - y) - a cents| is below one cent, in float arithmetic
C10_Near(x, y, amount) ==
    FCmpAbs(FSub(FSub(x, y), FFromCents(amount)), FFromCents(1)) < 0

\* C10 amended: in the scenario a liquidation of 50.00 with creditor B and
\* debtor A settles both balances; a liquidation of amount a raises the
\* balance of its creditor and lowers that of its debtor, by a up to the
\* rounding of the float arithmetic, and leaves the other balances alone.
C10_CreditorGains ==
    [][\A c \in Collectives, d \in Users, cr \in Users, amount \in Amounts :
          (CreateLiquidation(c, d, cr, amount) /\ result'.err = NoError)
              => \A before \in {stats(c)}, after \in {StatsAfter(c)} :
                     /\ (C10_Scenario(c) /\ cr = "B" /\ d = "A" /\ amount = 5000)
                            => C10_Settled(after)
                     /\ HasBalance(before, cr)
                            => /\ C10_Raised(before, after, cr)
                               /\ C10_Near(Balance(after, cr), Balance(before, cr),
                                           amount)
                     /\ HasBalance(before, d)
                            => /\ C10_Raised(after, before, d)
                               /\ C10_Near(Balance(before, d), Balance(after, d),
                                           amount)
                     /\ \A m \in Users \ {d, cr} :
                            HasBalance(before, m)
                                => Balance(after, m) = Balance(before, m)]_vars

\* the liquidation of 50.00 from creditor B to debtor A has just settled the
\* purchase of 100.00 by A between the members A and B
C10_Witness ==
    /\ result.op = "createLiquidation"
    /\ result.err = NoError
    /\ MembersOf("c1", memberships, active) = <<"A", "B">>
    /\ \E i \in 1..Len(purchases) :
           purchases[i] = [collective |-> "c1", buyer |-> "A", price |-> 10000,
                           deleted |-> FALSE]
    /\ liquidations[result.id] = [collective |-> "c1", debtor |-> "A",
                                  creditor |-> "B", amount |-> 5000,
                                  deleted |-> FALSE]
    /\ Balance(stats("c1"), "A") = FZero(0)
    /\ Balance(stats("c1"), "B") = FZero(0)

(***************************************************************************)
(* The balance formula in exact arithmetic, on amounts in cents.           *)
(***************************************************************************)
\* the float x is exactly num / den, for integers num and 0 < den <= 2^15
FEqualsRatio(x, num, den) ==
    IF num = 0 THEN FIsZero(x)
    ELSE /\ ~FIsZero(x)
         /\ x.s = (IF num < 0 THEN 1 ELSE 0)
         /\ LET abs == BFromInt(IF num < 0 THEN -num ELSE num)
                md  == BMulFrom(x.m, den, 1, 0)
            IN  IF x.e >= 0 THEN BShl(md, x.e) = abs
                            ELSE md = BShl(abs, -x.e)

RECURSIVE CentsFrom(_, _)
CentsFrom(cents, i) ==
    IF i > Len(cents) THEN 0 ELSE cents[i] + CentsFrom(cents, i + 1)

\* the exact sum of a list of amounts in cents
Cents(cents) == CentsFrom(cents, 1)

\* M: the active member set of collective c
ActiveMembers(c) == {u \in Users : memberships[c][u] > 0 /\ active[u]}

\* P: the non-deleted purchases of c with the buyer in M
P(c) ==
    SelectSeq(purchases, LAMBDA p : /\ p.collective = c
                                    /\ ~p.deleted
                                    /\ p.buyer \in ActiveMembers(c))

\* L: the non-deleted liquidations of c between two members of M
L(c) ==
    SelectSeq(liquidations, LAMBDA l : /\ l.collective = c
                                       /\ ~l.deleted
                                       /\ l.creditor \in ActiveMembers(c)
                                       /\ l.debtor \in ActiveMembers(c))

purchasedBy(c, m) == Cents(PricesIn(SelectSeq(P(c), LAMBDA p : p.buyer = m)))

creditTo(c, m) == Cents(AmountsIn(SelectSeq(L(c), LAMBDA l : l.creditor = m)))

debtOf(c, m) == Cents(AmountsIn(SelectSeq(L(c), LAMBDA l : l.debtor = m)))

overallPurchased(c) == Cents(PricesIn(P(c)))

overallDebt(c) == Cents(AmountsIn(L(c)))

\* C11: with n >= 1 active members, the balance stats returns for each
\* active member m is purchasedBy(m) + creditTo(m) - debtOf(m) -
\* overallPurchased / n; with members A, B and one purchase of 100.00 by A
\* the balances are 50.00 and -50.00, overall_purchased is 100.00 and
\* overall_debt is 0.
C11_BalanceFormula ==
    \A c \in Collectives :
        \A st \in {stats(c)} :
            st.err = NoError =>
                LET n == Cardinality(ActiveMembers(c))
                IN  /\ \A m \in ActiveMembers(c) :
                           /\ HasBalance(st, m)
                           /\ FEqualsRatio(
                                  Balance(st, m),
                                  n * (purchasedBy(c, m) + creditTo(c, m)
                                           - debtOf(c, m))
                                      - overallPurchased(c),
                                  100 * n)
                    /\ C10_Scenario(c)
                           => /\ Balance(st, "A") = FFromCents(5000)
                              /\ Balance(st, "B") = FNeg(FFromCents(5000))
                              /\ st.overall_purchased = FFromCents(10000)
                              /\ FIsZero(st.overall_debt)

\* C12: for a collective without active members stats raises no error and
\* returns no balances, overall_purchased 0 and overall_debt 0, whatever
\* rows are stored.
C12_NoMembersEmptyStats ==
    \A c \in Collectives :
        ActiveMembers(c) = {} =>
            \A st \in {stats(c)} :
                /\ st.err = NoError
                /\ st.sorted_balances = <<>>
                /\ FIsZero(st.overall_purchased)
                /\ FIsZero(st.overall_debt)

\* delete() raises nothing and leaves the row deleted; on a row that is
\* deleted already it changes nothing
C13_Step ==
    /\ \A i \in 1..Len(purchases) :
           DeletePurchase(i)
               => /\ result'.err = NoError
                  /\ purchases'[i].deleted
                  /\ purchases[i].deleted => purchases' = purchases
    /\ \A i \in 1..Len(liquidations) :
           DeleteLiquidation(i)
               => /\ result'.err = NoError
                  /\ liquidations'[i].deleted
                  /\ liquidations[i].deleted => liquidations' = liquidations

\* no step removes a row or takes its deleted flag back
C13_Terminal ==
    /\ Len(purchases') >= Len(purchases)
    /\ Len(liquidations') >= Len(liquidations)
    /\ \A i \in 1..Len(purchases) :
           purchases[i].deleted => purchases'[i].deleted
    /\ \A i \in 1..Len(liquidations) :
           liquidations[i].deleted => liquidations'[i].deleted

C14_MemberPurchased(c, m) ==
    LET members == MembersOf(c, memberships, active)
    IN  SumCents(PricesIn(SelectSeq(PurchasesOf(c, members, purchases),
                                    LAMBDA p : p.buyer = m)))

\* C14: with n >= 1 active members, overall_purchased of stats equals the
\* sum over the active members of the amount each has purchased.
C14_PurchasedAttributed ==
    \A c \in Collectives :
        \A st \in {stats(c)} :
            st.err = NoError =>
                LET members == MembersOf(c, memberships, active)
                IN  st.overall_purchased =
                        FSum([i \in 1..Len(members) |->
                                 C14_MemberPurchased(c, members[i])])

\* the liquidation l of collective c is not deleted and has exactly one of
\* its parties in M
C15_OneParty(c, l) ==
    /\ l.collective = c
    /\ ~l.deleted
    /\ (l.creditor \in ActiveMembers(c)) # (l.debtor \in ActiveMembers(c))

\* C15: a non-deleted liquidation with exactly one party among the active
\* members contributes nothing to stats: overall_debt and every balance are
\* what they are without these rows.
C15_OnlyPairsWithinMembers ==
    \A c \in Collectives :
        stats(c) = StatsOn(c, memberships, active, purchases,
                           SelectSeq(liquidations,
                                     LAMBDA l : ~C15_OneParty(c, l)))

\* both handlers have finished an update of collective c, and p has
\* committed the last change of its password
C16_LastPasswordChange(c, p) ==
    /\ \A q \in Procs : calls[q].pc = "done" /\ calls[q].c = c
    /\ calls[p].kind = "password"
    /\ \A q \in Procs : calls[q].kind = "password"
                            => calls[q].commit <= calls[p].commit

\* C16: after two concurrent updates of one collective, of which at least
\* one assigns a password, the stored hash verifies the plain text of the
\* password change committed last, the stored token is the one drawn with
\* that hash, and an update that assigned no password has neither hashed
\* nor rotated.
C16_ConsistentAfterRace ==
    \A c \in Collectives, p \in Procs :
        C16_LastPasswordChange(c, p) =>
            /\ CheckPassword(c, calls[p].value)
            /\ collectives[c].password = calls[p].instance.password
            /\ collectives[c].token = calls[p].instance.token
            /\ \A q \in Procs : calls[q].kind = "name" => ~calls[q].hashed

\* both handlers have finished add_member for the pair (c, u)
C17_BothDone(c, u) ==
    \A p \in Procs : calls[p].pc = "done" /\ calls[p].c = c /\ calls[p].u = u

\* C17 as stated: after two concurrent add_member calls for one pair, in
\* any interleaving, exactly one Membership row exists and neither call has
\* raised an error.
C17_AsStated ==
    \A c \in Collectives, u \in Users :
        C17_BothDone(c, u) =>
            /\ memberships[c][u] = 1
            /\ \A p \in Procs : calls[p].err = NoError

\* C17 amended: exactly one Membership row exists; a call fails, with the
\* IntegrityError of the unique constraint, exactly when it found no row
\* and the other call inserted before it; the other call succeeds.
C17_SecondInsertFails ==
    /\ \A c \in Collectives, u \in Users : memberships[c][u] <= 1
    /\ \A c \in Collectives, u \in Users :
           C17_BothDone(c, u) =>
               /\ memberships[c][u] = 1
               /\ \E p \in Procs : calls[p].created /\ calls[p].err = NoError
               /\ \A p \in Procs : \A q \in Procs \ {p} :
                      /\ calls[p].err \in {NoError, "IntegrityError"}
                      /\ calls[p].err = "IntegrityError"
                             <=> /\ ~calls[p].found
                                 /\ calls[q].created
                                 /\ calls[q].commit < calls[p].commit

\* both calls found no row, and the one that inserted second has failed
C17_Witness ==
    \E c \in Collectives, u \in Users :
        /\ C17_BothDone(c, u)
        /\ \A p \in Procs : ~calls[p].found
        /\ \E p \in Procs : calls[p].err = "IntegrityError"
        /\ result.err = "IntegrityError"

\* the floats a and b differ by exactly num / den: a - b = num / den, for
\* integers num and 0 < den <= 2^15
FDiffEqualsRatio(a, b, num, den) ==
    LET es  == {0} \cup {x.e : x \in {y \in {a, b} : ~FIsZero(y)}}
        lo  == CHOOSE e \in es : \A f \in es : e <= f
        A   == BShl(a.m, a.e - lo)
        B   == BShl(b.m, b.e - lo)
        N   == BShl(BFromInt(IF num < 0 THEN -num ELSE num), -lo)
        pos == BAdd(IF a.s = 0 THEN A ELSE <<>>, IF b.s = 1 THEN B ELSE <<>>)
        neg == BAdd(IF a.s = 1 THEN A ELSE <<>>, IF b.s = 0 THEN B ELSE <<>>)
    IN  BNorm(BAdd(BMulFrom(pos, den, 1, 0), IF num < 0 THEN N ELSE <<>>))
            = BNorm(BAdd(BMulFrom(neg, den, 1, 0), IF num < 0 THEN <<>> ELSE N))

\* C18: when an active user joins a collective with n >= 1 active members,
\* the rows unchanged, stats gives the new member the balance
\* -overallPurchased / (n + 1) and raises the balance of every previous
\* member by overallPurchased / n - overallPurchased / (n + 1).
C18_RetroactiveSplit ==
    [][\A c \in Collectives, u \in Users :
          (AddMember(c, u) /\ ~is_member(c, u) /\ active[u])
              => \A before \in {stats(c)}, after \in {StatsAfter(c)} :
                     before.err = NoError =>
                         LET n == Cardinality(ActiveMembers(c))
                             O == overallPurchased(c)
                         IN  /\ after.err = NoError
                             /\ HasBalance(after, u)
                             /\ FEqualsRatio(Balance(after, u), -O,
                                             100 * (n + 1))
                             /\ \A m \in ActiveMembers(c) :
                                    FDiffEqualsRatio(Balance(after, m),
                                                     Balance(before, m),
                                                     O, 100 * n * (n + 1))]_vars

\* the place of user u in the order Collective.members iterates in
C19_Place(u) == CHOOSE i \in 1..Len(UserOrder) : UserOrder[i] = u

\* C19: sorted_balances holds exactly one entry per active member of the
\* collective, in non-increasing order of balance, entries of equal balance
\* in the order the members are iterated in.
C19_SortedBalances ==
    \A c \in Collectives :
        \A st \in {stats(c)} :
            st.err = NoError =>
                LET sb == st.sorted_balances
                IN  /\ Len(sb) = Cardinality(ActiveMembers(c))
                    /\ {sb[i].member : i \in 1..Len(sb)} = ActiveMembers(c)
                    /\ \A i \in 1..Len(sb) : \A j \in (i + 1)..Len(sb) :
                           /\ ~FLess(sb[i].balance, sb[j].balance)
                           /\ ~FLess(sb[j].balance, sb[i].balance)
                                  => C19_Place(sb[i].member)
                                         < C19_Place(sb[j].member)

\* three entries: the first balance above the other two, which are equal
C19_Witness ==
    \E c \in Collectives :
        /\ stats(c).err = NoError
        /\ Len(stats(c).sorted_balances) = 3
        /\ FLess(stats(c).sorted_balances[2].balance,
                 stats(c).sorted_balances[1].balance)
        /\ stats(c).sorted_balances[2].balance
               = stats(c).sorted_balances[3].balance

\* the three querysets stats reads (collective.members, .purchases and
\* .liquidations): all that stats is computed from
C20_Reads(d, mem, act, ps, ls) ==
    LET members == MembersOf(d, mem, act)
    IN  <<members, PurchasesOf(d, members, ps), LiquidationsOf(d, members, ls)>>

\* the stats of d are the same after the step: at once when the querysets
\* it reads are the same, by comparing the two results otherwise
C20_SameStats(d) ==
    \/ C20_Reads(d, memberships', active', purchases', liquidations')
           = C20_Reads(d, memberships, active, purchases, liquidations)
    \/ StatsAfter(d) = stats(d)

\* what a step on collective c must leave alone: the stats, the Membership
\* rows, the password hash and the token of every other collective
C20_Frame(c) ==
    \A d \in Collectives \ {c} :
        /\ memberships'[d] = memberships[d]
        /\ collectives'[d].password = collectives[d].password
        /\ collectives'[d].token = collectives[d].token
        /\ C20_SameStats(d)

\* C20: createPurchase, createLiquidation, the soft deletes, addMember and
\* setPassword on one collective leave the stats, the memberships, the
\* password hash and the token of every other collective as they were.
\* (result'.op names the operation of the step: each action sets it.)
C20_Isolated ==
    [][/\ result'.op = "addMember" =>
              \A c \in Collectives, u \in IsoUsers :
                  AddMember(c, u) => C20_Frame(c)
       /\ result'.op = "createPurchase" =>
              \A c \in Collectives, u \in IsoUsers, price \in Prices :
                  CreatePurchase(c, u, price) => C20_Frame(c)
       /\ result'.op = "createLiquidation" =>
              \A c \in Collectives, d \in IsoUsers, cr \in IsoUsers,
                 amount \in Amounts :
                  CreateLiquidation(c, d, cr, amount) => C20_Frame(c)
       /\ result'.op = "deletePurchase" =>
              \A i \in 1..Len(purchases) :
                  DeletePurchase(i) => C20_Frame(purchases[i].collective)
       /\ result'.op = "deleteLiquidation" =>
              \A i \in 1..Len(liquidations) :
                  DeleteLiquidation(i) => C20_Frame(liquidations[i].collective)
       /\ result'.op = "setPassword" =>
              \A c \in Collectives, password \in IsoPlaintexts :
                  SetPassword(c, password) => C20_Frame(c)]_vars

\* a purchase was just filed in one collective by a user who is a member of
\* the other too, where a purchase of theirs is on the books
C20_Witness ==
    /\ result.op = "createPurchase"
    /\ result.err = NoError
    /\ \E d \in Collectives \ {purchases[result.id].collective} :
           /\ is_member(d, purchases[result.id].buyer)
           /\ \E i \in 1..Len(purchases) :
                  /\ purchases[i].collective = d
                  /\ purchases[i].buyer = purchases[result.id].buyer
                  /\ ~purchases[i].deleted

=============================================================================
